---- MODULE Spec2Model ----
(***************************************************************************)
(* kiss-crypto (src/index.ts): the versioned envelope codec                *)
(*   encrypt / decrypt          text envelope  "001:<nonce hex>:<base64>"  *)
(*   encryptBlob / decryptBlob  blob envelope  version ++ nonce ++ cipher  *)
(* and the two key derivations hash / hashPassword.                        *)
(*                                                                         *)
(* Strings are sequences of code points, byte arrays are sequences of      *)
(* 0..255.  ./utils and ./libsodium are not part of src/index.ts; their    *)
(* operators below follow the contracts of spec.md (sections 4.1, 4.2,     *)
(* 4.4, 7).                                                                *)
(***************************************************************************)
EXTENDS Integers, Sequences, FiniteSets, TLC

VARIABLES enc, msg, mod, dec, kdf, calls, drawn

vars == <<enc, msg, mod, dec, kdf, calls, drawn>>

(***************************************************************************)
(* Bounds of the model.                                                    *)
(***************************************************************************)
\* longest plaintext (code points) / plainblob (bytes) that is encrypted
MaxPlainLen == 1
\* how many distinct values the secure random source can return
NumSeeds == 2
\* how many encrypt / encryptBlob calls may be in flight together
MaxCalls == 2

(***************************************************************************)
(* Constants of src/index.ts.                                              *)
(***************************************************************************)
STRING_PARTITION == 58
Version == <<48, 48, 49>>
ArgonLength == 32
ArgonSaltLength == 16
ArgonIterations == 5
ArgonMemLimit == 67108864
EncryptionKeyLength == 32
EncryptionNonceLength == 24
NonceHexLength == 48
\* crypto_aead_xchacha20poly1305_ietf_ABYTES: the tag the primitive appends
AeadTagLength == 16

\* JavaScript's undefined, where a string was expected
Undefined == <<-1>>

Ok(v) == [ok |-> TRUE, v |-> v]
Fail == [ok |-> FALSE, v |-> <<>>]

RECURSIVE Sum(_)
Sum(s) == IF s = <<>> THEN 0 ELSE Head(s) + Sum(Tail(s))

RECURSIVE WSum(_)
WSum(s) == IF s = <<>> THEN 0 ELSE Len(s) * s[Len(s)] + WSum(SubSeq(s, 1, Len(s) - 1))

RECURSIVE SeqsUpTo(_, _)
SeqsUpTo(S, n) ==
  IF n = 0 THEN {<<>>}
  ELSE LET shorter == SeqsUpTo(S, n - 1)
       IN  shorter \cup {Append(s, x) : s \in {t \in shorter : Len(t) = n - 1}, x \in S}

(***************************************************************************)
(* ./utils : encoding utilities (spec.md 4.1).                             *)
(***************************************************************************)
HexDigit(d) == IF d < 10 THEN 48 + d ELSE 87 + d

HexValue(c) ==
  IF c \in 48..57 THEN c - 48
  ELSE IF c \in 97..102 THEN c - 87
  ELSE IF c \in 65..70 THEN c - 55
  ELSE -1

arrayBufferToHexString(b) ==
  [i \in 1..(2 * Len(b)) |->
     IF i % 2 = 1 THEN HexDigit(b[(i + 1) \div 2] \div 16)
                  ELSE HexDigit(b[i \div 2] % 16)]

IsHex(s) ==
  /\ s # Undefined
  /\ Len(s) % 2 = 0
  /\ \A i \in 1..Len(s) : HexValue(s[i]) >= 0

hexStringToArrayBuffer(s) ==
  IF ~IsHex(s) THEN Fail
  ELSE Ok([i \in 1..(Len(s) \div 2) |->
             16 * HexValue(s[2 * i - 1]) + HexValue(s[2 * i])])

B64Char(v) ==
  IF v < 26 THEN 65 + v
  ELSE IF v < 52 THEN 71 + v
  ELSE IF v < 62 THEN v - 4
  ELSE IF v = 62 THEN 43 ELSE 47

B64Value(c) ==
  IF c \in 65..90 THEN c - 65
  ELSE IF c \in 97..122 THEN c - 71
  ELSE IF c \in 48..57 THEN c + 4
  ELSE IF c = 43 THEN 62
  ELSE IF c = 47 THEN 63
  ELSE -1

Pow64(e) == IF e = 0 THEN 1 ELSE IF e = 1 THEN 64 ELSE IF e = 2 THEN 4096 ELSE 262144

arrayBufferToBase64(b) ==
  LET n == Len(b)
      At(i) == IF i <= n THEN b[i] ELSE 0
  IN  [i \in 1..(4 * ((n + 2) \div 3)) |->
         LET g == (i - 1) \div 4
             j == (i - 1) % 4
             triple == 65536 * At(3 * g + 1) + 256 * At(3 * g + 2) + At(3 * g + 3)
         IN  IF (j = 2 /\ 3 * g + 2 > n) \/ (j = 3 /\ 3 * g + 3 > n)
             THEN 61
             ELSE B64Char((triple \div Pow64(3 - j)) % 64)]

\* the number of '=' that end s (0, 1 or 2 in a well-formed string)
B64Pad(s) ==
  IF Len(s) >= 2 /\ s[Len(s)] = 61 /\ s[Len(s) - 1] = 61 THEN 2
  ELSE IF Len(s) >= 1 /\ s[Len(s)] = 61 THEN 1
  ELSE 0

IsBase64(s) ==
  /\ s # Undefined
  /\ Len(s) % 4 = 0
  /\ \A i \in 1..(Len(s) - B64Pad(s)) : B64Value(s[i]) >= 0

base64ToArrayBuffer(s) ==
  IF ~IsBase64(s) THEN Fail
  ELSE LET Val(i) == IF i > Len(s) - B64Pad(s) THEN 0 ELSE B64Value(s[i])
       IN  Ok([i \in 1..(3 * (Len(s) \div 4) - B64Pad(s)) |->
                 LET g == (i - 1) \div 3
                     j == (i - 1) % 3
                     quad == 262144 * Val(4 * g + 1) + 4096 * Val(4 * g + 2)
                               + 64 * Val(4 * g + 3) + Val(4 * g + 4)
                 IN  IF j = 0 THEN quad \div 65536
                     ELSE IF j = 1 THEN (quad \div 256) % 256
                     ELSE quad % 256])

\* UTF-8 of a string of code points below 2048
RECURSIVE stringToArrayBuffer(_)
stringToArrayBuffer(s) ==
  IF s = <<>> THEN <<>>
  ELSE LET c == Head(s)
       IN  (IF c < 128 THEN <<c>> ELSE <<192 + (c \div 64), 128 + (c % 64)>>)
             \o stringToArrayBuffer(Tail(s))

RECURSIVE arrayBufferToString(_)
arrayBufferToString(b) ==
  IF b = <<>> THEN Ok(<<>>)
  ELSE IF b[1] < 128
    THEN LET r == arrayBufferToString(Tail(b))
         IN  IF r.ok THEN Ok(<<b[1]>> \o r.v) ELSE Fail
  ELSE IF b[1] \in 194..223 /\ Len(b) >= 2 /\ b[2] \in 128..191
    THEN LET r == arrayBufferToString(SubSeq(b, 3, Len(b)))
         IN  IF r.ok THEN Ok(<<64 * (b[1] - 192) + (b[2] - 128)>> \o r.v) ELSE Fail
  ELSE Fail

concatUint8Arrays(a, b, c) == a \o b \o c

(***************************************************************************)
(* ./utils generateRandomKey (spec.md 4.2): `seed` is what the platform's  *)
(* secure random source returns for this draw.                             *)
(***************************************************************************)
RandomBytes(len, seed) == [j \in 1..len |-> (83 * seed + 7 * j + 5) % 256]

generateRandomKey(len, seed) == arrayBufferToHexString(RandomBytes(len, seed))

(***************************************************************************)
(* How a call ends: it returns a value, returns null, or throws.           *)
(***************************************************************************)
Returned(v) == [t |-> "value", v |-> v, err |-> "none"]
Null == [t |-> "null", v |-> <<>>, err |-> "none"]
Thrown(e) == [t |-> "throw", v |-> <<>>, err |-> e]

\* one invocation of the AEAD primitive: nonce, key, and the ciphertext it
\* produced (encryption) or was handed (decryption)
AeadCall(n, k, c) == [n |-> n, k |-> k, c |-> c]

(***************************************************************************)
(* ./libsodium : XChaCha20-Poly1305 with no associated data (spec.md 4.4   *)
(* and 7).  The cipher is a stand-in with the primitive's contract: the    *)
(* output is the masked message followed by a 16-byte tag over key, nonce  *)
(* and masked message; decryption recomputes the tag and returns null      *)
(* when it differs.                                                        *)
(***************************************************************************)
KeyStream(k, n, i) ==
  (7 * k[((i - 1) % Len(k)) + 1] + 13 * n[((i - 1) % Len(n)) + 1] + 31 * i + 101) % 256

AeadTag(body, n, k) ==
  LET sk == Sum(k)
      wk == WSum(k)
      sn == Sum(n)
      wn == WSum(n)
      sb == Sum(body)
      wb == WSum(body)
  IN  [j \in 1..AeadTagLength |->
         (j * sk + wk + (2 * j - 1) * sn + j * wn + (2 * j + 1) * sb + j * wb
            + 17 * Len(body) + j) % 256]

crypto_aead_xchacha20poly1305_ietf_encrypt(m, n, k) ==
  IF Len(n) # EncryptionNonceLength \/ Len(k) # EncryptionKeyLength THEN Fail
  ELSE LET body == [i \in 1..Len(m) |-> (m[i] + KeyStream(k, n, i)) % 256]
       IN  Ok(body \o AeadTag(body, n, k))

crypto_aead_xchacha20poly1305_ietf_decrypt(c, n, k) ==
  IF Len(n) # EncryptionNonceLength \/ Len(k) # EncryptionKeyLength
    THEN Thrown("length")
  ELSE IF Len(c) < AeadTagLength THEN Null
  ELSE LET body == SubSeq(c, 1, Len(c) - AeadTagLength)
           tag == SubSeq(c, Len(c) - AeadTagLength + 1, Len(c))
       IN  IF tag # AeadTag(body, n, k) THEN Null
           ELSE Returned([i \in 1..Len(body) |->
                            (body[i] + 256 - KeyStream(k, n, i)) % 256])

(***************************************************************************)
(* JavaScript built-ins used by src/index.ts.                              *)
(***************************************************************************)
RECURSIVE Join(_, _)
Join(fields, sep) ==
  IF Len(fields) = 0 THEN <<>>
  ELSE IF Len(fields) = 1 THEN fields[1]
  ELSE fields[1] \o <<sep>> \o Join(Tail(fields), sep)

\* String.prototype.split(sep): every field, "" gives one empty field
RECURSIVE Split(_, _)
Split(s, sep) ==
  IF \A i \in 1..Len(s) : s[i] # sep THEN <<s>>
  ELSE LET p == CHOOSE i \in 1..Len(s) : s[i] = sep /\ \A j \in 1..(i - 1) : s[j] # sep
       IN  <<SubSeq(s, 1, p - 1)>> \o Split(SubSeq(s, p + 1, Len(s)), sep)

\* String.prototype.split(sep, limit): the first `limit` fields, the rest dropped
SplitLimit(s, sep, limit) ==
  LET all == Split(s, sep)
  IN  IF Len(all) <= limit THEN all ELSE SubSeq(all, 1, limit)

\* array destructuring: a missing element is undefined
Field(parts, i) == IF i <= Len(parts) THEN parts[i] ELSE Undefined

\* a < b on strings: code unit by code unit, a proper prefix is smaller
RECURSIVE StrLess(_, _)
StrLess(a, b) ==
  IF b = <<>> THEN FALSE
  ELSE IF a = <<>> THEN TRUE
  ELSE IF a[1] # b[1] THEN a[1] < b[1]
  ELSE StrLess(Tail(a), Tail(b))

\* Uint8Array.prototype.slice(from, to), 0-based, clamped to the array
Slice(a, from, to) ==
  LET hi == IF to < Len(a) THEN to ELSE Len(a)
  IN  IF from >= hi THEN <<>> ELSE SubSeq(a, from + 1, hi)

(***************************************************************************)
(* src/index.ts : private functions.  Each gives how it ends (res) and     *)
(* the AEAD invocations it made (aead).                                    *)
(***************************************************************************)
xChaChaEncrypt(key, plaintext, nonce) ==
  LET n == hexStringToArrayBuffer(nonce)
      k == hexStringToArrayBuffer(key)
      r == crypto_aead_xchacha20poly1305_ietf_encrypt(
             stringToArrayBuffer(plaintext), n.v, k.v)
  IN  IF Len(nonce) # NonceHexLength THEN [res |-> Thrown("nonce"), aead |-> <<>>]
      ELSE IF ~n.ok \/ ~k.ok THEN [res |-> Thrown("format"), aead |-> <<>>]
      ELSE IF ~r.ok THEN [res |-> Thrown("length"), aead |-> <<>>]
      ELSE [res |-> Returned(arrayBufferToBase64(r.v)),
            aead |-> <<AeadCall(n.v, k.v, r.v)>>]

xChaChaEncryptBlob(key, plainblob, nonceBuffer) ==
  LET k == hexStringToArrayBuffer(key)
      r == crypto_aead_xchacha20poly1305_ietf_encrypt(plainblob, nonceBuffer, k.v)
  IN  IF Len(nonceBuffer) # EncryptionNonceLength
        THEN [res |-> Thrown("nonce"), aead |-> <<>>]
      ELSE IF ~k.ok THEN [res |-> Thrown("format"), aead |-> <<>>]
      ELSE IF ~r.ok THEN [res |-> Thrown("length"), aead |-> <<>>]
      ELSE [res |-> Returned(r.v), aead |-> <<AeadCall(nonceBuffer, k.v, r.v)>>]

\* a variant of xChaChaDecrypt that lets a failed authentication escape as an error
xChaChaDecryptThrows(key, ciphertext, nonce) ==
  LET c == base64ToArrayBuffer(ciphertext)
      n == hexStringToArrayBuffer(nonce)
      k == hexStringToArrayBuffer(key)
      r == crypto_aead_xchacha20poly1305_ietf_decrypt(c.v, n.v, k.v)
      text == arrayBufferToString(r.v)
  IN  IF ~c.ok \/ ~n.ok \/ ~k.ok THEN [res |-> Thrown("format"), aead |-> <<>>]
      ELSE [res |-> IF r.t = "null" THEN Thrown("auth")
                    ELSE IF r.t # "value" THEN r
                    ELSE IF text.ok THEN Returned(text.v) ELSE Thrown("format"),
            aead |-> <<AeadCall(n.v, k.v, c.v)>>]

xChaChaDecrypt(key, ciphertext, nonce) ==
  LET c == base64ToArrayBuffer(ciphertext)
      n == hexStringToArrayBuffer(nonce)
      k == hexStringToArrayBuffer(key)
      r == crypto_aead_xchacha20poly1305_ietf_decrypt(c.v, n.v, k.v)
      text == arrayBufferToString(r.v)
  IN  IF ~c.ok \/ ~n.ok \/ ~k.ok THEN [res |-> Thrown("format"), aead |-> <<>>]
      ELSE [res |-> IF r.t # "value" THEN r
                    ELSE IF text.ok THEN Returned(text.v) ELSE Thrown("format"),
            aead |-> <<AeadCall(n.v, k.v, c.v)>>]

\* a variant of xChaChaDecryptBlob that hands back the unmasked bytes without
\* looking at the authentication result
xChaChaDecryptBlobUnchecked(key, cipherblob, nonceBuffer) ==
  LET k == hexStringToArrayBuffer(key)
      r == crypto_aead_xchacha20poly1305_ietf_decrypt(cipherblob, nonceBuffer, k.v)
  IN  IF ~k.ok THEN [res |-> Thrown("format"), aead |-> <<>>]
      ELSE [res |-> IF r.t = "null"
                      THEN Returned(Slice(cipherblob, 0, Len(cipherblob) - AeadTagLength))
                      ELSE r,
            aead |-> <<AeadCall(nonceBuffer, k.v, cipherblob)>>]

xChaChaDecryptBlob(key, cipherblob, nonceBuffer) ==
  LET k == hexStringToArrayBuffer(key)
  IN  IF ~k.ok THEN [res |-> Thrown("format"), aead |-> <<>>]
      ELSE [res |-> crypto_aead_xchacha20poly1305_ietf_decrypt(cipherblob, nonceBuffer, k.v),
            aead |-> <<AeadCall(nonceBuffer, k.v, cipherblob)>>]

(***************************************************************************)
(* src/index.ts : the envelope codec.  `seed` is the value the secure      *)
(* random source returns to this call.                                     *)
(***************************************************************************)
\* a variant of the version check: `version <= Defaults.Version`
VersionNotNewer(version) == ~StrLess(Version, version)

\* `version < Defaults.Version`
VersionTooOld(version) == StrLess(version, Version)

\* a variant of the text envelope with the ciphertext before the nonce
TextEnvelopeCipherFirst(nonce, ciphertext) ==
  Join(<<Version, ciphertext, nonce>>, STRING_PARTITION)

\* [Defaults.Version, nonce, ciphertext].join(STRING_PARTITION)
TextEnvelope(nonce, ciphertext) == Join(<<Version, nonce, ciphertext>>, STRING_PARTITION)

\* a variant of the blob envelope with the nonce before the version
BlobEnvelopeNonceFirst(nonceBuffer, cipherblob) ==
  LET versionBuffer == stringToArrayBuffer(Version)
  IN  concatUint8Arrays(nonceBuffer, versionBuffer, cipherblob)

\* concatUint8Arrays(versionBuffer, nonceBuffer, cipherblob)
BlobEnvelope(nonceBuffer, cipherblob) ==
  LET versionBuffer == stringToArrayBuffer(Version)
  IN  concatUint8Arrays(versionBuffer, nonceBuffer, cipherblob)

encrypt(key, plaintext, seed) ==
  LET nonce == generateRandomKey(EncryptionNonceLength, seed)
      x == xChaChaEncrypt(key, plaintext, nonce)
  IN  [res |-> IF x.res.t = "value"
                 THEN Returned(TextEnvelope(nonce, x.res.v))
                 ELSE x.res,
       nonce |-> nonce,
       aead |-> x.aead]

encryptBlob(key, plainblob, seed) ==
  LET nonce == generateRandomKey(EncryptionNonceLength, seed)
      nonceBuffer == hexStringToArrayBuffer(nonce)
      x == xChaChaEncryptBlob(key, plainblob, nonceBuffer.v)
  IN  [res |-> IF ~nonceBuffer.ok THEN Thrown("format")
               ELSE IF x.res.t = "value"
                 THEN Returned(BlobEnvelope(nonceBuffer.v, x.res.v))
                 ELSE x.res,
       nonce |-> nonce,
       aead |-> IF nonceBuffer.ok THEN x.aead ELSE <<>>]

\* a variant of decrypt that splits with limit 2
decryptSplitTwo(key, encryptedMessage) ==
  LET parts == SplitLimit(encryptedMessage, STRING_PARTITION, 2)
      version == Field(parts, 1)
      nonce == Field(parts, 2)
      ciphertext == Field(parts, 3)
  IN  IF VersionTooOld(version) THEN [res |-> Thrown("version"), aead |-> <<>>]
      ELSE xChaChaDecrypt(key, ciphertext, nonce)

decrypt(key, encryptedMessage) ==
  LET parts == SplitLimit(encryptedMessage, STRING_PARTITION, 3)
      version == Field(parts, 1)
      nonce == Field(parts, 2)
      ciphertext == Field(parts, 3)
  IN  IF VersionTooOld(version) THEN [res |-> Thrown("version"), aead |-> <<>>]
      ELSE xChaChaDecrypt(key, ciphertext, nonce)

\* a variant of decryptBlob whose nonce slice ends at the nonce length, not
\* at version length + nonce length
decryptBlobSliceLength(key, encryptedMessage) ==
  LET versionBuffer == Slice(encryptedMessage, 0, Len(Version))
      version == arrayBufferToString(versionBuffer)
      nonceBuffer == Slice(encryptedMessage, Len(Version), EncryptionNonceLength)
      cipherblob == Slice(encryptedMessage, Len(Version) + EncryptionNonceLength,
                          Len(encryptedMessage))
  IN  IF ~version.ok THEN [res |-> Thrown("format"), aead |-> <<>>]
      ELSE IF VersionTooOld(version.v) THEN [res |-> Thrown("version"), aead |-> <<>>]
      ELSE xChaChaDecryptBlob(key, cipherblob, nonceBuffer)

decryptBlob(key, encryptedMessage) ==
  LET versionBuffer == Slice(encryptedMessage, 0, Len(Version))
      version == arrayBufferToString(versionBuffer)
      nonceBuffer == Slice(encryptedMessage, Len(Version),
                           Len(Version) + EncryptionNonceLength)
      cipherblob == Slice(encryptedMessage, Len(Version) + EncryptionNonceLength,
                          Len(encryptedMessage))
  IN  IF ~version.ok THEN [res |-> Thrown("format"), aead |-> <<>>]
      ELSE IF VersionTooOld(version.v) THEN [res |-> Thrown("version"), aead |-> <<>>]
      ELSE xChaChaDecryptBlob(key, cipherblob, nonceBuffer)

(***************************************************************************)
(* Key derivation.  fast-sha256's hkdf and libsodium's crypto_pwhash are   *)
(* stand-ins with the primitives' contracts: deterministic in every        *)
(* argument, `length` bytes long; crypto_pwhash wants a 16-byte salt.      *)
(***************************************************************************)
hkdf(ikm, salt, length) ==
  Ok([j \in 1..length |-> (j * Sum(ikm) + WSum(ikm) + 3 * Sum(salt) + j * WSum(salt)
                              + 29 * Len(salt) + j * j) % 256])

crypto_pwhash(length, password, salt, opslimit, memlimit) ==
  IF Len(salt) # ArgonSaltLength THEN Fail
  ELSE Ok([j \in 1..length |->
             (j * Sum(password) + WSum(password) + 5 * Sum(salt) + j * WSum(salt)
                + 11 * opslimit + (memlimit \div 1024) + 3 * j) % 256])

\* what fast-sha256's hkdf returns when `length` is undefined
HkdfDefaultLength == 32

hash(key, salt, length) ==
  LET result == hkdf(stringToArrayBuffer(key), stringToArrayBuffer(salt), length)
  IN  IF result.ok THEN Returned(arrayBufferToHexString(result.v)) ELSE Thrown("hkdf")

hashPassword(password, salt, iterations, bytes, length) ==
  LET s == hexStringToArrayBuffer(salt)
      result == crypto_pwhash(length, stringToArrayBuffer(password), s.v, iterations, bytes)
  IN  IF ~s.ok THEN Thrown("format")
      ELSE IF ~result.ok THEN Thrown("length")
      ELSE Returned(arrayBufferToHexString(result.v))

(***************************************************************************)
(* The inputs the model draws from.                                        *)
(***************************************************************************)
\* the key of spec.md's example vector ("00" x 32) and a second key
KeyA == [i \in 1..(2 * EncryptionKeyLength) |-> 48]
KeyB == arrayBufferToHexString([j \in 1..EncryptionKeyLength |-> j])
Keys == {KeyA, KeyB}

\* ':' and a two-byte UTF-8 character
PlainChars == {STRING_PARTITION, 233}
Plaintexts == SeqsUpTo(PlainChars, MaxPlainLen)
BlobBytes == {STRING_PARTITION, 255}
Blobs == SeqsUpTo(BlobBytes, MaxPlainLen)
Seeds == 0..(NumSeeds - 1)

\* what a tampered text envelope may hold instead of a character: '1'
\* (a hex and base64 digit), ':' (neither, and the separator), 'A' (the
\* upper case of a hex digit) and 'g' (base64 only)
TextTamperChars == {49, STRING_PARTITION, 65, 103}
BlobTamperBytes == {0, 255}

\* version fields over '0', '1', '2', up to the width of "001"
Versions == SeqsUpTo({48, 49, 50}, Len(Version))
\* what may be appended to a text envelope after one more ':'
Extras == {<<>>, <<101, 120, 116, 114, 97>>, <<120, STRING_PARTITION, 120>>}

\* salts: 16 bytes of hex, and strings that are not hex
SaltGood == [i \in 1..(2 * ArgonSaltLength) |-> 48]
SaltOther == generateRandomKey(ArgonSaltLength, 1)
SaltOdd == <<97, 98, 99>>
SaltNotHex == [i \in 1..(2 * ArgonSaltLength) |-> 122]
SaltShort == <<48, 48>>
Salts == {SaltGood, SaltOther, SaltOdd, SaltNotHex, SaltShort}
Secrets == {<<>>, <<112>>, <<112, 119>>}

(***************************************************************************)
(* The state: one envelope transaction (enc, msg, mod, dec), one key       *)
(* derivation (kdf), and, for the interleaved view, the encryption calls   *)
(* in flight (calls) and what the random source has returned (drawn).      *)
(***************************************************************************)
NoEnc == [kind |-> "none", key |-> <<>>, plain |-> <<>>, nonce |-> <<>>,
          aead |-> <<>>, res |-> Null]
NoMod == [what |-> "none", region |-> "none", pos |-> 0, val |-> 0]
NoDec == [kind |-> "none", key |-> <<>>, aead |-> <<>>, res |-> Null]
NoKdf == [op |-> "none", secret |-> <<>>, salt |-> <<>>, res |-> Null]

Init ==
  /\ enc = NoEnc
  /\ msg = <<>>
  /\ mod = NoMod
  /\ dec = NoDec
  /\ kdf = NoKdf
  /\ calls = <<>>
  /\ drawn = <<>>

Idle == enc.kind = "none" /\ kdf.op = "none" /\ calls = <<>>

\* encrypt({key, plaintext})
Encrypt ==
  /\ Idle
  /\ \E k \in Keys, p \in Plaintexts, seed \in Seeds :
       LET e == encrypt(k, p, seed)
       IN  /\ enc' = [kind |-> "text", key |-> k, plain |-> p, nonce |-> e.nonce,
                      aead |-> e.aead, res |-> e.res]
           /\ msg' = e.res.v
  /\ UNCHANGED <<mod, dec, kdf, calls, drawn>>

\* encryptBlob({key, plainblob})
EncryptBlob ==
  /\ Idle
  /\ \E k \in Keys, b \in Blobs, seed \in Seeds :
       LET e == encryptBlob(k, b, seed)
       IN  /\ enc' = [kind |-> "blob", key |-> k, plain |-> b, nonce |-> e.nonce,
                      aead |-> e.aead, res |-> e.res]
           /\ msg' = e.res.v
  /\ UNCHANGED <<mod, dec, kdf, calls, drawn>>

\* where the nonce and the ciphertext lie in an envelope that encrypt /
\* encryptBlob returned (1-based positions)
NonceRegion(kind) ==
  IF kind = "text" THEN (Len(Version) + 2)..(Len(Version) + 1 + NonceHexLength)
  ELSE (Len(Version) + 1)..(Len(Version) + EncryptionNonceLength)

CipherRegion(kind, envelope) ==
  IF kind = "text" THEN (Len(Version) + NonceHexLength + 3)..Len(envelope)
  ELSE (Len(Version) + EncryptionNonceLength + 1)..Len(envelope)

Untouched == enc.kind # "none" /\ enc.res.t = "value" /\ mod = NoMod /\ dec = NoDec

\* the envelope is altered on its way: one byte of the nonce or of the
\* ciphertext region is replaced by a different value
Tamper ==
  /\ Untouched
  /\ \E pos \in NonceRegion(enc.kind) \cup CipherRegion(enc.kind, msg),
        val \in IF enc.kind = "text" THEN TextTamperChars ELSE BlobTamperBytes :
       /\ val # msg[pos]
       /\ msg' = [msg EXCEPT ![pos] = val]
       /\ mod' = [what |-> "tamper",
                  region |-> IF pos \in NonceRegion(enc.kind) THEN "nonce" ELSE "cipher",
                  pos |-> pos, val |-> val]
  /\ UNCHANGED <<enc, dec, kdf, calls, drawn>>

\* the envelope is presented with another version field
ReplaceVersion ==
  /\ Untouched
  /\ \E v \in Versions :
       /\ msg' = v \o SubSeq(msg, Len(Version) + 1, Len(msg))
       /\ mod' = [NoMod EXCEPT !.what = "version"]
  /\ UNCHANGED <<enc, dec, kdf, calls, drawn>>

\* a text envelope is presented with one more ':' and what follows it
AppendField ==
  /\ Untouched
  /\ enc.kind = "text"
  /\ \E extra \in Extras :
       /\ msg' = msg \o <<STRING_PARTITION>> \o extra
       /\ mod' = [NoMod EXCEPT !.what = "append"]
  /\ UNCHANGED <<enc, dec, kdf, calls, drawn>>

\* a text envelope is presented cut down to its first n fields
DropFields ==
  /\ Untouched
  /\ enc.kind = "text"
  /\ \E n \in 1..2 :
       /\ msg' = Join(SubSeq(Split(msg, STRING_PARTITION), 1, n), STRING_PARTITION)
       /\ mod' = [NoMod EXCEPT !.what = "drop"]
  /\ UNCHANGED <<enc, dec, kdf, calls, drawn>>

\* decrypt({key, ciphertext})
Decrypt ==
  /\ enc.kind = "text"
  /\ enc.res.t = "value"
  /\ dec = NoDec
  /\ \E k \in Keys :
       LET d == decrypt(k, msg)
       IN  dec' = [kind |-> "text", key |-> k, aead |-> d.aead, res |-> d.res]
  /\ UNCHANGED <<enc, msg, mod, kdf, calls, drawn>>

\* decryptBlob({key, cipherblob})
DecryptBlob ==
  /\ enc.kind = "blob"
  /\ enc.res.t = "value"
  /\ dec = NoDec
  /\ \E k \in Keys :
       LET d == decryptBlob(k, msg)
       IN  dec' = [kind |-> "blob", key |-> k, aead |-> d.aead, res |-> d.res]
  /\ UNCHANGED <<enc, msg, mod, kdf, calls, drawn>>

\* hash({key, salt}) with the default length
Hash ==
  /\ Idle
  /\ \E secret \in Secrets, salt \in Salts :
       kdf' = [op |-> "hash", secret |-> secret, salt |-> salt,
               res |-> hash(secret, salt, HkdfDefaultLength)]
  /\ UNCHANGED <<enc, msg, mod, dec, calls, drawn>>

\* hashPassword({password, salt}) with the default cost parameters
HashPassword ==
  /\ Idle
  /\ \E password \in Secrets, salt \in Salts :
       kdf' = [op |-> "hashPassword", secret |-> password, salt |-> salt,
               res |-> hashPassword(password, salt, ArgonIterations, ArgonMemLimit,
                                    ArgonLength)]
  /\ UNCHANGED <<enc, msg, mod, dec, calls, drawn>>

Next ==
  \/ Encrypt
  \/ EncryptBlob
  \/ Tamper
  \/ ReplaceVersion
  \/ AppendField
  \/ DropFields
  \/ Decrypt
  \/ DecryptBlob
  \/ Hash
  \/ HashPassword

Spec == Init /\ [][Next]_vars

(***************************************************************************)
(* The interleaved view.  encrypt and encryptBlob are async: a call        *)
(* suspends at `await generateRandomKey(...)` and at `await xChaCha...`,   *)
(* and other calls run in between.  A call is at "draw" (started), "aead"  *)
(* (its nonce is drawn) or "done" (its envelope is returned).              *)
(***************************************************************************)
\* the calls of the interleaved view all encrypt under one key, the case in
\* which a repeated nonce would matter
CallKeys == {KeyB}
CallPlain(kind) == IF kind = "text" THEN <<STRING_PARTITION, 233>> ELSE <<STRING_PARTITION, 255>>

\* a caller starts encrypt (kind "text") or encryptBlob (kind "blob")
StartCall ==
  /\ enc.kind = "none" /\ kdf.op = "none"
  /\ Len(calls) < MaxCalls
  /\ \E kind \in {"text", "blob"}, k \in CallKeys :
       calls' = Append(calls, [kind |-> kind, key |-> k, plain |-> CallPlain(kind),
                               pc |-> "draw", nonce |-> <<>>, draw |-> 0,
                               aead |-> <<>>, res |-> Null])
  /\ UNCHANGED <<enc, msg, mod, dec, kdf, drawn>>

\* const nonce = await generateRandomKey(Defaults.EncryptionNonceLength)
DrawNonce ==
  \E c \in 1..Len(calls), seed \in Seeds :
    /\ calls[c].pc = "draw"
    /\ LET nonce == generateRandomKey(EncryptionNonceLength, seed)
       IN  /\ drawn' = Append(drawn, nonce)
           /\ calls' = [calls EXCEPT ![c].pc = "aead", ![c].nonce = nonce,
                                     ![c].draw = Len(drawn) + 1]
    /\ UNCHANGED <<enc, msg, mod, dec, kdf>>

\* a variant where the nonce lives in one variable shared by all calls: a
\* call reads back whatever was drawn last
NonceShared(c) == drawn[Len(drawn)]

\* the `nonce` a call hands on after its await: its own local constant
NonceOf(c) == calls[c].nonce

\* await xChaChaEncrypt / xChaChaEncryptBlob with the call's nonce, then the
\* envelope is put together and returned
FinishCall ==
  \E c \in 1..Len(calls) :
    /\ calls[c].pc = "aead"
    /\ LET nonce == NonceOf(c)
           nonceBuffer == hexStringToArrayBuffer(nonce)
           x == IF calls[c].kind = "text"
                  THEN xChaChaEncrypt(calls[c].key, calls[c].plain, nonce)
                  ELSE xChaChaEncryptBlob(calls[c].key, calls[c].plain, nonceBuffer.v)
           res == IF x.res.t # "value" THEN x.res
                  ELSE IF calls[c].kind = "text"
                    THEN Returned(TextEnvelope(nonce, x.res.v))
                    ELSE Returned(BlobEnvelope(nonceBuffer.v, x.res.v))
       IN  calls' = [calls EXCEPT ![c].pc = "done", ![c].aead = x.aead, ![c].res = res]
    /\ UNCHANGED <<enc, msg, mod, dec, kdf, drawn>>

NextCalls ==
  \/ StartCall
  \/ DrawNonce
  \/ FinishCall

SpecCalls == Init /\ [][NextCalls]_vars

(***************************************************************************)
(* Properties.                                                             *)
(***************************************************************************)
Decrypted == dec.kind # "none"
HasChar(s, c) == \E i \in 1..Len(s) : s[i] = c
NoRepeat(s) == \A i, j \in 1..Len(s) : i # j => s[i] # s[j]

\* the version field of an envelope: the first ':'-separated field of a text
\* envelope, the first three bytes of a blob envelope
VersionField(kind, envelope) ==
  IF kind = "text" THEN Split(envelope, STRING_PARTITION)[1]
  ELSE Slice(envelope, 0, Len(Version))

\* C1: decrypt(K, encrypt(K, P)) returns exactly P, for every key and every
\* plaintext (the empty one and those holding ':' included); encrypt itself
\* returns an envelope.
C1_TextRoundTrip ==
  /\ enc.kind = "text" => enc.res.t = "value"
  /\ (dec.kind = "text" /\ mod = NoMod /\ dec.key = enc.key)
       => dec.res = Returned(enc.plain)

C1_Witness ==
  /\ dec.kind = "text" /\ mod = NoMod /\ dec.key = enc.key
  /\ HasChar(enc.plain, STRING_PARTITION)
  /\ dec.res.t = "value"

\* C2: decryptBlob(K, encryptBlob(K, B)) returns exactly B, for every key and
\* every byte sequence (the empty one and those holding the ':' byte included).
C2_BlobRoundTrip ==
  /\ enc.kind = "blob" => enc.res.t = "value"
  /\ (dec.kind = "blob" /\ mod = NoMod /\ dec.key = enc.key)
       => dec.res = Returned(enc.plain)

C2_Witness ==
  /\ dec.kind = "blob" /\ mod = NoMod /\ dec.key = enc.key
  /\ HasChar(enc.plain, STRING_PARTITION)
  /\ dec.res.t = "value"

TamperedSameKey == mod.what = "tamper" /\ Decrypted /\ dec.key = enc.key

\* C3 as stated: after any single byte of the nonce or ciphertext region is
\* replaced, decrypt / decryptBlob under the same key returns null.
C3_TamperAlwaysNull == TamperedSameKey => dec.res = Null

\* C3 as amended: a tampered blob envelope always decrypts to null.  A
\* tampered text envelope never yields a plaintext other than the original:
\* decrypt throws a format error when the altered envelope no longer decodes,
\* returns null whenever it decodes to a 24-byte nonce and a ciphertext of
\* which one differs from what was encrypted, and returns the original
\* plaintext only when it decodes to the very same nonce and ciphertext.
C3_TamperNeverWrongPlaintext ==
  TamperedSameKey =>
    /\ enc.kind = "blob" => dec.res = Null
    /\ dec.res.t = "value" => (dec.res.v = enc.plain /\ dec.aead = enc.aead)
    /\ dec.res.t = "throw" => dec.res.err = "format"
    /\ (dec.aead # <<>> /\ dec.aead # enc.aead
          /\ Len(dec.aead[1].n) = EncryptionNonceLength) => dec.res = Null

C3_Witness ==
  /\ TamperedSameKey
  /\ enc.kind = "blob" /\ mod.region = "nonce" /\ enc.plain # <<>>
  /\ dec.res = Null

\* C4: decrypting an unaltered envelope under another key returns null and
\* does not throw; whenever the AEAD primitive reports an authentication
\* failure, the call returns null.
C4_WrongKeyNull ==
  /\ (Decrypted /\ mod = NoMod /\ dec.key # enc.key) => dec.res = Null
  /\ (Decrypted /\ dec.aead # <<>>
        /\ crypto_aead_xchacha20poly1305_ietf_decrypt(
             dec.aead[1].c, dec.aead[1].n, dec.aead[1].k) = Null)
       => dec.res = Null

C4_Witness ==
  /\ dec.kind = "text" /\ mod = NoMod /\ dec.key # enc.key
  /\ dec.res = Null

\* C5: decrypt / decryptBlob throw the version error exactly when the
\* envelope's version field is lexicographically less than "001", and then
\* the AEAD primitive is not invoked; "000" is rejected, "001" and "002" are
\* not rejected by the version check.
C5_VersionCheck ==
  Decrypted =>
    LET v == VersionField(dec.kind, msg)
    IN  /\ (dec.res = Thrown("version")) <=> StrLess(v, Version)
        /\ dec.res.err = "version" => (dec.aead = <<>> /\ dec.res.t = "throw")
        /\ v = <<48, 48, 48>> => dec.res = Thrown("version")
        /\ v \in {Version, <<48, 48, 50>>} => dec.res.err # "version"

C5_Witness ==
  /\ dec.kind = "text" /\ mod.what = "version"
  /\ VersionField("text", msg) = <<48, 48, 48>>
  /\ dec.res = Thrown("version") /\ dec.aead = <<>>

\* C6 as stated: decrypt of a text envelope that does not split on ':' into
\* exactly 3 fields (an envelope cut down to fewer fields, or one with a
\* field appended) throws a format error; it returns neither a plaintext
\* nor null.
C6_FieldCountFormatError ==
  (dec.kind = "text" /\ mod.what \in {"append", "drop"}
     /\ Len(Split(msg, STRING_PARTITION)) # 3)
    => dec.res = Thrown("format")

\* C7: the string encrypt returns has exactly two ':' and splits into the
\* version "001", the 48 hex characters of the nonce handed to the AEAD
\* encryption of this call, and the base64 of what that encryption returned.
C7_TextEnvelopeFormat ==
  (enc.kind = "text" /\ mod = NoMod /\ dec = NoDec) =>
    /\ enc.res.t = "value"
    /\ Len(enc.aead) = 1
    /\ LET parts == Split(enc.res.v, STRING_PARTITION)
           call == enc.aead[1]
       IN  /\ Cardinality({i \in 1..Len(enc.res.v) : enc.res.v[i] = STRING_PARTITION}) = 2
           /\ Len(parts) = 3
           /\ parts[1] = Version
           /\ parts[2] = enc.nonce
           /\ Len(parts[2]) = NonceHexLength
           /\ parts[2] = arrayBufferToHexString(call.n)
           /\ parts[3] = arrayBufferToBase64(call.c)
           /\ Ok(call.c) = crypto_aead_xchacha20poly1305_ietf_encrypt(
                             stringToArrayBuffer(enc.plain), call.n, call.k)

C7_Witness ==
  /\ enc.kind = "text" /\ enc.res.t = "value" /\ mod = NoMod /\ dec = NoDec
  /\ enc.plain = <<STRING_PARTITION>>
  /\ Len(Split(enc.res.v, STRING_PARTITION)) = 3

\* C8: the bytes encryptBlob returns are the 3 version bytes, then the 24
\* nonce bytes handed to the AEAD encryption of this call, then what that
\* encryption returned; decryptBlob of these bytes hands the same nonce and
\* the same ciphertext to the AEAD decryption.
C8_BlobEnvelopeLayout ==
  /\ (enc.kind = "blob" /\ mod = NoMod /\ dec = NoDec) =>
       /\ enc.res.t = "value"
       /\ Len(enc.aead) = 1
       /\ Len(enc.aead[1].n) = EncryptionNonceLength
       /\ Len(stringToArrayBuffer(Version)) = 3
       /\ enc.res.v = stringToArrayBuffer(Version) \o enc.aead[1].n \o enc.aead[1].c
       /\ Ok(enc.aead[1].c) = crypto_aead_xchacha20poly1305_ietf_encrypt(
                                enc.plain, enc.aead[1].n, enc.aead[1].k)
  /\ (dec.kind = "blob" /\ mod = NoMod) =>
       /\ Len(dec.aead) = 1
       /\ dec.aead[1].n = SubSeq(msg, 4, 27)
       /\ dec.aead[1].c = SubSeq(msg, 28, Len(msg))
       /\ dec.aead[1].n = enc.aead[1].n
       /\ dec.aead[1].c = enc.aead[1].c

C8_Witness ==
  /\ dec.kind = "blob" /\ mod = NoMod
  /\ HasChar(enc.plain, STRING_PARTITION)
  /\ Len(dec.aead) = 1 /\ dec.aead[1].n = enc.aead[1].n

\* C9 as stated: hash and hashPassword both fail with an error when the salt
\* is not valid hex.
C9_SaltMustBeHex ==
  (kdf.op # "none" /\ ~IsHex(kdf.salt)) => kdf.res.t = "throw"

\* C10: in every interleaving of encrypt and encryptBlob calls, each call
\* draws exactly one nonce from the random source, hands that one to its AEAD
\* invocation and embeds it in its envelope, and no two calls use the same
\* draw; so while the source has not repeated a value, no two envelopes under
\* one key share a nonce and no two returned envelopes are equal.
NonceFieldOf(call) ==
  IF call.kind = "text"
    THEN hexStringToArrayBuffer(Split(call.res.v, STRING_PARTITION)[2]).v
    ELSE Slice(call.res.v, Len(Version), Len(Version) + EncryptionNonceLength)

C10_NonceFresh ==
  LET past == {c \in 1..Len(calls) : calls[c].pc # "draw"}
      done == {c \in 1..Len(calls) : calls[c].pc = "done"}
  IN  /\ Len(drawn) = Cardinality(past)
      /\ \A c \in past : calls[c].draw \in 1..Len(drawn)
      /\ \A c, d \in past : c # d => calls[c].draw # calls[d].draw
      /\ \A c \in done :
           /\ calls[c].res.t = "value"
           /\ Len(calls[c].aead) = 1
           /\ Len(drawn[calls[c].draw]) = NonceHexLength
           /\ calls[c].aead[1].n = hexStringToArrayBuffer(drawn[calls[c].draw]).v
           /\ NonceFieldOf(calls[c]) = calls[c].aead[1].n
      /\ NoRepeat(drawn) =>
           \A c, d \in done :
             c # d =>
               /\ calls[c].key = calls[d].key
                    => calls[c].aead[1].n # calls[d].aead[1].n
               /\ calls[c].res.v # calls[d].res.v

C10_Witness ==
  /\ Len(calls) >= 2
  /\ calls[1].pc = "done" /\ calls[2].pc = "done"
  /\ calls[1].kind = "text" /\ calls[2].kind = "text"
  /\ calls[1].key = calls[2].key
  /\ calls[2].draw = 1 /\ calls[1].draw = 2
  /\ NoRepeat(drawn)
  /\ calls[1].res.v # calls[2].res.v

====
